---- MODULE Spec2Model ----
(***************************************************************************)
(* Model of scripts/import_test_images.py: main() as a sequential state    *)
(* machine whose steps are the external calls it makes (device query,      *)
(* makedirs, download, import, remove, rmdir, summary, exit).              *)
(*                                                                         *)
(* Environment: xcrun list may exit non-zero or print any device list;     *)
(* urlretrieve may raise (leaving no file or a partial file); xcrun         *)
(* addmedia may exit non-zero; os.rmdir raises on a non-empty directory    *)
(* and may raise for other reasons.  An exception nobody catches ends the  *)
(* interpreter with exit status 1.                                         *)
(***************************************************************************)
EXTENDS Integers, Sequences, FiniteSets, TLC

\* ---------------------------------------------------------------- bounds
MaxLines == 2      \* lines of `simctl list devices` output explored
MaxPartial == 1    \* partial files failed downloads may leave behind

\* ------------------------------------------------------------- constants
None == "None"

\* value of exitStatus while the process has not exited
Running == -1

UUIDs == {"ABCD-1234", "EF56-7890"}

\* keys of IMAGES in insertion order, as character sequences
Cities ==
  << <<"c","o","p","e","n","h","a","g","e","n">>,
     <<"p","a","r","i","s">>,
     <<"b","e","r","l","i","n">> >>

\* IMAGES[city]: the photo id of each URL, in list order
IMAGES ==
  << <<"1513622470522-26c3c8a854bc", "1564507592333-c60657eea523",
       "1549573925-9975a04a9a2d",    "1557093793-e196ae071479",
       "1588698301085-57f4c7c4a8cb", "1599946347371-68eb71b16afc",
       "1589992602626-fa7c8f1f8f01", "1526391751351-0a4df8d8e511",
       "1602491453631-e2a5ad90a131", "1554939437-ecc492c67b78">>,
     <<"1502602898657-3e91760cbb34", "1499856871958-5b9627545d1a",
       "1511739001486-6bfe10ce785f", "1431274172761-fca41d930114",
       "1509439581779-6298f75bf6e5", "1522093007474-d86e9bf7ba6f",
       "1550340499-a6c60fc8287c",    "1549144511-f099e773c147",
       "1505576391880-b3f9d713dc4f", "1500039436846-25ae2f11882e">>,
     <<"1560969184-10fe8719e047",    "1587330979470-3595ac045ab7",
       "1599946347371-68eb71b16afc", "1528728329032-2972f65dfb3f",
       "1566404791232-af9fe0ae8f8b", "1546726747-421c6d69c929",
       "1599098939570-fb3a1c88e999", "1587330979470-3595ac045ab7",
       "1560969184-10fe8719e047",    "1528728329032-2972f65dfb3f">> >>

temp_dir ==
  <<"/","t","m","p","/","w","a","n","d","e","r","l","o","g","_",
    "t","e","s","t","_","i","m","a","g","e","s">>

\* the literal total of the summary line
SummaryTotal == 30

\* an entry the script never writes, present in a directory left by others
OtherEntry == temp_dir \o <<"/",".","D","S","_","S","t","o","r","e">>

\* --------------------------------------------------------- pure helpers
Digits == <<"0","1","2","3","4","5","6","7","8","9">>

RECURSIVE Str(_)
Str(n) == IF n < 10 THEN <<Digits[n + 1]>>
          ELSE Str(n \div 10) \o <<Digits[(n % 10) + 1]>>

Filename_url(c, k) == temp_dir \o <<"/">> \o Cities[c] \o <<"_">>
                      \o <<IMAGES[c][k]>> \o <<".","j","p","g">>

\* f"{temp_dir}/{city}_{i}.jpg"
Filename(c, k) == temp_dir \o <<"/">> \o Cities[c] \o <<"_">> \o Str(k)
                  \o <<".","j","p","g">>

RECURSIVE SumLens(_)
SumLens(s) == IF s = <<>> THEN 0 ELSE Len(Head(s)) + SumLens(Tail(s))

CatalogSize == SumLens(IMAGES)

\* 1-based position of item (c, k) in catalog order
Index(c, k) == SumLens(SubSeq(IMAGES, 1, c - 1)) + k

Items == UNION {{<<c, k>> : k \in 1..Len(IMAGES[c])} : c \in 1..Len(Cities)}

\* ------------------------------------------------------ get_simulator_id
\* a line of the device list: does it contain 'Booted', and what
\* re.search(r'\(([A-F0-9-]+)\)', line) yields on it
Lines == [booted : BOOLEAN, match : UUIDs \cup {None}]

RECURSIVE SeqsUpTo(_, _)
SeqsUpTo(S, n) == IF n = 0 THEN {<<>>}
                  ELSE LET shorter == SeqsUpTo(S, n - 1)
                       IN shorter \cup {Append(s, x) : s \in shorter, x \in S}

ListDevicesResults ==
  {[rc |-> 1, stdout |-> <<>>]} \cup
  {[rc |-> 0, stdout |-> s] : s \in SeqsUpTo(Lines, MaxLines)}

RECURSIVE FirstBooted(_)
FirstBooted(lines) ==
  IF lines = <<>> THEN None
  ELSE IF Head(lines).booted /\ Head(lines).match # None
       THEN Head(lines).match
       ELSE FirstBooted(Tail(lines))

get_simulator_id(result) ==
  IF result.rc # 0 THEN None ELSE FirstBooted(result.stdout)

\* `not simulator_id`
IsFalsy_never(id) == FALSE

IsFalsy(id) == id = None

\* --------------------------------------------------------- download_image
download_image_raises(outcome) == IF outcome = "ok" THEN "True" ELSE "raise"

\* try: urlretrieve ... return True / except Exception: return False
download_image(outcome) == IF outcome = "ok" THEN "True" ELSE "False"

\* ----------------------------------------------------- import_to_simulator
\* try: run(check=True) ... return True / except CalledProcessError: False
import_to_simulator(outcome) ==
  IF outcome = "ok" THEN "True"
  ELSE IF outcome = "CalledProcessError" THEN "False"
  ELSE "raise"

\* ------------------------------------------------------------ main: control
\* line 123: `if download_image(...)` guards the import and the cleanup
PcAfterDownload_always(result) == "import"

PcAfterDownload_retry(result) == IF result = "True" THEN "import" ELSE "download"

PcAfterDownload(result) == IF result = "True" THEN "import" ELSE "inner"

\* line 131: os.remove sits outside `if import_to_simulator(...)`
PcAfterImport_onlyok(result) == IF result = "True" THEN "remove" ELSE "inner"

PcAfterImport(result) == "remove"

\* line 128: total_imported += 1 inside `if import_to_simulator(...)`
Count_ondownload(total, result) == total + 1

Count(total, result) == IF result = "True" THEN total + 1 ELSE total

\* ------------------------------------------------------------------ state
VARIABLES
  pc,             \* position in main()
  simulator_id,   \* line 100
  fs,             \* temp_dir on disk: [exists, entries]
  fs0,            \* temp_dir as it was when the run started
  complete,       \* entries written in full by a successful download
  city, i,        \* loop variables (city as index into Cities)
  filename,       \* line 120
  total_imported, \* line 113
  summary,        \* <<a, b>> once "Imported a/b" is printed, else <<>>
  exitStatus,     \* process exit status once exited
  called,         \* history: which calls main has made
  cur,            \* history: what happened to the current item
  dlCount,        \* history: download attempts so far
  bothOk,         \* history: items whose download and import both succeeded
  anyFail,        \* history: some download or import failed
  rmdirOk         \* history: outcome of the final os.rmdir

vars == <<pc, simulator_id, fs, fs0, complete, city, i, filename,
          total_imported, summary, exitStatus, called, cur, dlCount,
          bothOk, anyFail, rmdirOk>>

NoItem == [dl |-> "none", imp |-> "none", dlCalls |-> 0, impCalls |-> 0,
           removed |-> FALSE, total0 |-> 0]

InitialDirs ==
  { [exists |-> FALSE, entries |-> {}],
    [exists |-> TRUE,  entries |-> {}],
    [exists |-> TRUE,  entries |-> {OtherEntry}] }

Init ==
  /\ pc = "start"
  /\ simulator_id = None
  /\ fs \in InitialDirs
  /\ fs0 = fs
  /\ complete = {}
  /\ city = 0
  /\ i = 0
  /\ filename = <<>>
  /\ total_imported = 0
  /\ summary = <<>>
  /\ exitStatus = Running
  /\ called = {}
  /\ cur = NoItem
  /\ dlCount = 0
  /\ bothOk = 0
  /\ anyFail = FALSE
  /\ rmdirOk = "none"

\* files left behind by failed downloads of this run
Partial == (fs.entries \ complete) \ fs0.entries

\* ---------------------------------------------------------------- actions
\* line 100
LocateDevice ==
  /\ pc = "start"
  /\ \E result \in ListDevicesResults :
       simulator_id' = get_simulator_id(result)
  /\ called' = called \cup {"get_simulator_id"}
  /\ pc' = "check"
  /\ UNCHANGED <<fs, fs0, complete, city, i, filename, total_imported,
                 summary, exitStatus, cur, dlCount, bothOk, anyFail, rmdirOk>>

CheckSimulator_noexit ==
  /\ pc = "check"
  /\ pc' = "makedirs"
  /\ UNCHANGED <<simulator_id, fs, fs0, complete, city, i, filename,
                 total_imported, summary, exitStatus, called, cur, dlCount,
                 bothOk, anyFail, rmdirOk>>

\* lines 101-106
CheckSimulator ==
  /\ pc = "check"
  /\ IF IsFalsy(simulator_id)
       THEN /\ pc' = "exited"
            /\ exitStatus' = 1
       ELSE /\ pc' = "makedirs"
            /\ UNCHANGED exitStatus
  /\ UNCHANGED <<simulator_id, fs, fs0, complete, city, i, filename,
                 total_imported, summary, called, cur, dlCount, bothOk,
                 anyFail, rmdirOk>>

\* lines 109-113: os.makedirs(temp_dir, exist_ok=True); total_imported = 0
MakeDirs ==
  /\ pc = "makedirs"
  /\ fs' = [fs EXCEPT !.exists = TRUE]
  /\ total_imported' = 0
  /\ called' = called \cup {"makedirs"}
  /\ city' = 0
  /\ pc' = "outer"
  /\ UNCHANGED <<simulator_id, fs0, complete, i, filename, summary,
                 exitStatus, cur, dlCount, bothOk, anyFail, rmdirOk>>

\* lines 116-117 and 133: for city, urls in IMAGES.items()
ForCity ==
  /\ pc = "outer"
  /\ IF city < Len(Cities)
       THEN /\ city' = city + 1
            /\ i' = 0
            /\ pc' = "inner"
       ELSE /\ pc' = "rmdir"
            /\ UNCHANGED <<city, i>>
  /\ UNCHANGED <<simulator_id, fs, fs0, complete, filename, total_imported,
                 summary, exitStatus, called, cur, dlCount, bothOk, anyFail,
                 rmdirOk>>

\* lines 119-122: for i, url in enumerate(urls, 1); filename = ...
ForUrl ==
  /\ pc = "inner"
  /\ IF i < Len(IMAGES[city])
       THEN /\ i' = i + 1
            /\ filename' = Filename(city, i + 1)
            /\ cur' = [NoItem EXCEPT !.total0 = total_imported]
            /\ pc' = "download"
       ELSE /\ pc' = "outer"
            /\ UNCHANGED <<i, filename, cur>>
  /\ UNCHANGED <<simulator_id, fs, fs0, complete, city, total_imported,
                 summary, exitStatus, called, dlCount, bothOk, anyFail,
                 rmdirOk>>

DownloadOutcomes ==
  {"ok", "error"} \cup
  (IF Cardinality(Partial) < MaxPartial THEN {"error_partial"} ELSE {})

\* lines 123-124: download_image(url, filename)
Download ==
  /\ pc = "download"
  /\ \E outcome \in DownloadOutcomes :
       LET result == download_image(outcome) IN
         /\ fs' = IF outcome = "error" THEN fs
                  ELSE [fs EXCEPT !.entries = @ \cup {filename}]
         /\ complete' = IF outcome = "ok" THEN complete \cup {filename}
                        ELSE complete \ {filename}
         /\ cur' = [cur EXCEPT !.dl = IF outcome = "ok" THEN "ok" ELSE "fail",
                               !.dlCalls = @ + 1]
         /\ anyFail' = (anyFail \/ outcome # "ok")
         /\ IF result = "raise"
              THEN pc' = "exited" /\ exitStatus' = 1
              ELSE pc' = PcAfterDownload(result) /\ UNCHANGED exitStatus
  /\ dlCount' = dlCount + 1
  /\ called' = called \cup {"download_image"}
  /\ UNCHANGED <<simulator_id, fs0, city, i, filename, total_imported,
                 summary, bothOk, rmdirOk>>

\* addmedia exits non-zero; it cannot succeed on a file that is not there
ImportOutcomes ==
  {"CalledProcessError"} \cup
  (IF filename \in fs.entries THEN {"ok"} ELSE {})

\* lines 126-128: if import_to_simulator(...): total_imported += 1
Import ==
  /\ pc = "import"
  /\ \E outcome \in ImportOutcomes :
       LET result == import_to_simulator(outcome) IN
         /\ cur' = [cur EXCEPT !.imp = IF outcome = "ok" THEN "ok" ELSE "fail",
                               !.impCalls = @ + 1]
         /\ bothOk' = IF cur.dl = "ok" /\ outcome = "ok"
                      THEN bothOk + 1 ELSE bothOk
         /\ anyFail' = (anyFail \/ outcome # "ok")
         /\ IF result = "raise"
              THEN /\ pc' = "exited" /\ exitStatus' = 1
                   /\ UNCHANGED total_imported
              ELSE /\ total_imported' = Count(total_imported, result)
                   /\ pc' = PcAfterImport(result)
                   /\ UNCHANGED exitStatus
  /\ called' = called \cup {"import_to_simulator"}
  /\ UNCHANGED <<simulator_id, fs, fs0, complete, city, i, filename,
                 summary, dlCount, rmdirOk>>

Remove_keep ==
  /\ pc = "remove"
  /\ cur' = [cur EXCEPT !.removed = TRUE]
  /\ pc' = "inner"
  /\ called' = called \cup {"os.remove"}
  /\ UNCHANGED <<simulator_id, fs, fs0, complete, city, i, filename,
                 total_imported, summary, exitStatus, dlCount, bothOk,
                 anyFail, rmdirOk>>

\* line 131: os.remove(filename)
Remove ==
  /\ pc = "remove"
  /\ IF filename \in fs.entries
       THEN /\ fs' = [fs EXCEPT !.entries = @ \ {filename}]
            /\ complete' = complete \ {filename}
            /\ cur' = [cur EXCEPT !.removed = TRUE]
            /\ pc' = "inner"
            /\ UNCHANGED exitStatus
       ELSE /\ pc' = "exited"          \* FileNotFoundError, uncaught
            /\ exitStatus' = 1
            /\ UNCHANGED <<fs, complete, cur>>
  /\ called' = called \cup {"os.remove"}
  /\ UNCHANGED <<simulator_id, fs0, city, i, filename, total_imported,
                 summary, dlCount, bothOk, anyFail, rmdirOk>>

\* os.rmdir cannot succeed on a directory that still has entries
RmdirOutcomes ==
  {"OSError"} \cup (IF fs.exists /\ fs.entries = {} THEN {"ok"} ELSE {})

rmdir_guarded_propagates(outcome) == IF outcome = "ok" THEN "ok" ELSE "raise"

\* lines 136-139: try: os.rmdir(temp_dir) / except: pass
rmdir_guarded(outcome) == IF outcome = "ok" THEN "ok" ELSE "pass"

Rmdir ==
  /\ pc = "rmdir"
  /\ \E outcome \in RmdirOutcomes :
       LET result == rmdir_guarded(outcome) IN
         /\ fs' = IF outcome = "ok" THEN [fs EXCEPT !.exists = FALSE] ELSE fs
         /\ rmdirOk' = IF outcome = "ok" THEN "ok" ELSE "failed"
         /\ IF result = "raise"
              THEN pc' = "exited" /\ exitStatus' = 1
              ELSE pc' = "summarize" /\ UNCHANGED exitStatus
  /\ called' = called \cup {"os.rmdir"}
  /\ UNCHANGED <<simulator_id, fs0, complete, city, i, filename,
                 total_imported, summary, cur, dlCount, bothOk, anyFail>>

\* lines 141-142
Summarize ==
  /\ pc = "summarize"
  /\ summary' = <<total_imported, SummaryTotal>>
  /\ pc' = "return"
  /\ UNCHANGED <<simulator_id, fs, fs0, complete, city, i, filename,
                 total_imported, exitStatus, called, cur, dlCount, bothOk,
                 anyFail, rmdirOk>>

\* line 145: main() returns, the interpreter exits with status 0
Exit ==
  /\ pc = "return"
  /\ exitStatus' = 0
  /\ pc' = "exited"
  /\ UNCHANGED <<simulator_id, fs, fs0, complete, city, i, filename,
                 total_imported, summary, called, cur, dlCount, bothOk,
                 anyFail, rmdirOk>>

Next ==
  \/ LocateDevice
  \/ CheckSimulator
  \/ MakeDirs
  \/ ForCity
  \/ ForUrl
  \/ Download
  \/ Import
  \/ Remove
  \/ Rmdir
  \/ Summarize
  \/ Exit

Spec == Init /\ [][Next]_vars

TypeOK ==
  /\ pc \in {"start", "check", "makedirs", "outer", "inner", "download",
             "import", "remove", "rmdir", "summarize", "return", "exited"}
  /\ simulator_id \in UUIDs \cup {None}
  /\ total_imported \in 0..CatalogSize
  /\ city \in 0..Len(Cities)
  /\ exitStatus \in {Running, 0, 1}

\* ================================================================ claims
AfterItem == {"inner", "outer", "rmdir", "summarize", "return", "exited"}

Located == simulator_id # None

\* C1: when get_simulator_id returns None, main exits with status 1, having
\* called neither download_image nor import_to_simulator (nor anything else)
\* and having left the filesystem as it found it.
C1_NoDeviceExit ==
  (pc # "start" /\ simulator_id = None) =>
     /\ pc \in {"check", "exited"}
     /\ pc = "exited" => exitStatus = 1
     /\ called = {"get_simulator_id"}
     /\ dlCount = 0
     /\ fs = fs0

C1_Witness == pc = "exited" /\ simulator_id = None /\ exitStatus = 1

\* C2: an item whose download failed gets no import call and no os.remove,
\* leaves total_imported as it was when the item started, and control is
\* back at the loop head (next item, or the end of the loops).
C2_FailedDownloadSkipsItem ==
  cur.dl = "fail" =>
     /\ cur.impCalls = 0
     /\ cur.imp = "none"
     /\ ~cur.removed
     /\ total_imported = cur.total0
     /\ pc \in AfterItem
     /\ exitStatus # 1

C2_Witness ==
  /\ cur.dl = "fail"
  /\ pc = "inner" /\ i < Len(IMAGES[city])
  /\ total_imported = 1

\* C3: an item whose download succeeded and whose import failed has its file
\* removed before control returns to the loop head, and total_imported is
\* what it was when the item started.
C3_FailedImportCleansUp ==
  (cur.dl = "ok" /\ cur.imp = "fail") =>
     /\ total_imported = cur.total0
     /\ \/ pc = "remove" /\ filename \in fs.entries
        \/ /\ pc \in AfterItem
           /\ cur.removed
           /\ filename \notin fs.entries
           /\ exitStatus # 1

C3_Witness ==
  /\ cur.dl = "ok" /\ cur.imp = "fail"
  /\ pc = "inner" /\ cur.removed /\ filename \notin fs.entries

\* C4: the count printed in the summary is the number of items whose
\* download and import both succeeded, and is at most the catalog size, 30.
C4_SummaryCount ==
  summary # <<>> =>
     /\ summary[1] = bothOk
     /\ summary[1] <= CatalogSize
     /\ CatalogSize = 30

C4_Witness ==
  /\ summary # <<>>
  /\ anyFail
  /\ total_imported > 0
  /\ total_imported < CatalogSize

\* steps main() still has to take, at most: a measure every step decreases
Rank ==
  LET itemsAfter  == CatalogSize - Index(city, i)
      citiesAfter == Len(Cities) - city
      loop(off)   == 4 + 5 * itemsAfter + 3 * citiesAfter + off
  IN CASE pc = "start"     -> 4 + 5 * CatalogSize + 3 * Len(Cities) + 3
       [] pc = "check"     -> 4 + 5 * CatalogSize + 3 * Len(Cities) + 2
       [] pc = "makedirs"  -> 4 + 5 * CatalogSize + 3 * Len(Cities) + 1
       [] pc = "outer"     -> loop(0)
       [] pc = "inner"     -> loop(2)
       [] pc = "download"  -> loop(6)
       [] pc = "import"    -> loop(5)
       [] pc = "remove"    -> loop(4)
       [] pc = "rmdir"     -> 3
       [] pc = "summarize" -> 2
       [] pc = "return"    -> 1
       [] pc = "exited"    -> 0

\* C5: once a device is located, whatever downloads, imports and the final
\* rmdir do, the run is never stuck before it exits, every step brings it
\* closer to the exit (so it terminates), it exits only after attempting all
\* items and printing the summary, and with status 0; status 1 only comes
\* from the no-device path.
C5_NoFailureFatal ==
  /\ [](exitStatus = 1 => simulator_id = None)
  /\ []((pc = "exited" /\ Located) =>
          (exitStatus = 0 /\ dlCount = CatalogSize /\ summary # <<>>
             /\ "os.rmdir" \in called))
  /\ [](pc # "exited" => ENABLED Next)
  /\ [][Rank' < Rank /\ Rank' >= 0]_vars

C5_Witness ==
  /\ pc = "exited" /\ exitStatus = 0
  /\ anyFail /\ rmdirOk = "failed"
  /\ total_imported < dlCount

\* C6 as stated: device located, every download and import succeeds: the
\* summary is 30/30, the exit status 0 and the directory is gone.
C6_Original ==
  (pc = "exited" /\ Located /\ ~anyFail) =>
     /\ summary = <<30, 30>>
     /\ exitStatus = 0
     /\ ~fs.exists

\* C6 (amended): device located, every download and import succeeds: the
\* summary is 30/30, the exit status 0, no file of the run remains, and the
\* directory is gone exactly when the final os.rmdir succeeded.
C6_AllSucceed ==
  (pc = "exited" /\ Located /\ ~anyFail) =>
     /\ summary = <<30, 30>>
     /\ exitStatus = 0
     /\ fs.entries = fs0.entries
     /\ rmdirOk \in {"ok", "failed"}
     /\ fs.exists <=> rmdirOk = "failed"

C6_Witness ==
  /\ pc = "exited" /\ Located /\ ~anyFail
  /\ summary = <<30, 30>> /\ ~fs.exists

\* C7: the filename built for the current item differs from the filename of
\* every other catalog item, also of those with the same URL.
C7_FilenamesUnique ==
  pc \in {"download", "import", "remove"} =>
     \A it \in Items \ {<<city, i>>} : Filename(it[1], it[2]) # filename

C7_Witness ==
  /\ pc = "download"
  /\ \E it \in Items \ {<<city, i>>} : IMAGES[it[1]][it[2]] = IMAGES[city][i]

\* C8 as stated: the temporary directory is created before the Device
\* Locator is called.
C8_Original == "get_simulator_id" \in called => "makedirs" \in called

\* C8 (amended): the order is LocateDevice, create directory, per-item
\* processing, rmdir, Summarize, Exit: the directory is created only after
\* the Device Locator has returned a device.
C8_StepOrder ==
  /\ "makedirs" \in called => ("get_simulator_id" \in called /\ Located)
  /\ "download_image" \in called => "makedirs" \in called
  /\ "os.rmdir" \in called => dlCount = CatalogSize
  /\ summary # <<>> => "os.rmdir" \in called
  /\ exitStatus = 0 => summary # <<>>

C8_Witness == "makedirs" \in called /\ pc = "exited" /\ exitStatus = 0

\* C9: the k-th download attempt of a run is for the k-th catalog item, each
\* item gets exactly one download attempt and at most one import attempt,
\* and a run that located a device has attempted all of them when it exits.
C9_NoRetryInOrder ==
  /\ cur.dlCalls <= 1
  /\ cur.impCalls <= 1
  /\ pc = "download" => (cur.dlCalls = 0 /\ dlCount = Index(city, i) - 1)
  /\ (pc \in {"import", "remove"} \/ (pc = "inner" /\ i > 0)) =>
        (cur.dlCalls = 1 /\ dlCount = Index(city, i))
  /\ (pc = "exited" /\ Located) => dlCount = CatalogSize

C9_Witness ==
  /\ pc = "exited" /\ dlCount = CatalogSize
  /\ anyFail /\ total_imported > 0

\* C10: at most one fully downloaded file exists at any time; the import
\* runs only while the current item's file exists; no such file exists when
\* a download begins nor when the final rmdir is attempted.
C10_OneTempFile ==
  /\ Cardinality(complete) <= 1
  /\ complete \subseteq fs.entries
  /\ pc = "import" => filename \in complete
  /\ pc \in {"download", "rmdir"} => complete = {}

C10_Witness ==
  /\ pc = "import" /\ complete = {filename}
  /\ Partial # {}
====
